---- MODULE Spec2Model ----
(***************************************************************************)
(* Model of src/pipe.py: the Pipe class and main().  A Pipe reads a        *)
(* subscriptions csv and a bookings csv, then main() calls its eight       *)
(* methods in a fixed order.  Each method is one action; the data frames   *)
(* are sequences of records (row order is the frame's row order).          *)
(*                                                                         *)
(* Values.  A date string of a csv file is the tuple <<y, m, d>> (the      *)
(* empty tuple is an empty csv cell); a pandas Timestamp is the integer    *)
(* y*10000 + m*100 + d, so Timestamps compare as integers; NaT is a        *)
(* negative integer and every comparison with it is false, as in pandas.   *)
(* A null (None / <NA>) of an integer column is NA.  The fill value True   *)
(* that reindex writes into the status column is the string "True".        *)
(* Dates carry no time of day.                                             *)
(*                                                                         *)
(* Inputs.  The subscriptions file holds at least one row; sub_id is an    *)
(* integer; a date is a month start or the 15th of a month; a status is    *)
(* free text.  A booking timestamp is written 'YYYY-MM-DD hh:mm:ss', of    *)
(* which only the date part is kept here.                                  *)
(***************************************************************************)
EXTENDS Integers, Sequences, FiniteSets

\* pc: the call of main that runs next; subscriptions_csv, bookings_csv: the two
\* input files; subscriptions_df, bookings_df, bookings_per_month, output_df:
\* the frames the Pipe holds; test1_csv, results_csv: the files it writes
\* ('test1.csv' and 'DE_challenge_results.csv')
VARIABLES pc, subscriptions_csv, bookings_csv, subscriptions_df, bookings_df,
          bookings_per_month, output_df, test1_csv, results_csv

vars == <<pc, subscriptions_csv, bookings_csv, subscriptions_df, bookings_df,
          bookings_per_month, output_df, test1_csv, results_csv>>

-----------------------------------------------------------------------------
(* Bounds of the model *)

\* rows read from the two csv files together
MaxRows == 3

SubIds == {1, 2}
SubscriptionStatuses == {"active", "canceled", "paused"}
BookingStatuses == {"Confirmed", "Cancelled"}

\* three month starts and one date that is not a month start
SubscriptionDates == {<<2021, 1, 1>>, <<2021, 1, 15>>, <<2021, 2, 1>>, <<2021, 3, 1>>}
\* the date parts of the booking timestamps
BookingDates == {<<2021, 1, 7>>, <<2021, 1, 20>>, <<2021, 2, 7>>}

SubscriptionRows ==
    [sub_id : SubIds, status : SubscriptionStatuses, dates : SubscriptionDates]
BookingRows ==
    [subscriber_id : SubIds, booking_date : BookingDates,
     booking_status : BookingStatuses]

\* the rows of the runs that compare row orders: two statuses, three dates
OrderRows ==
    [sub_id : SubIds, status : {"active", "canceled"},
     dates : {<<2021, 1, 1>>, <<2021, 1, 15>>, <<2021, 3, 1>>}]

-----------------------------------------------------------------------------
(* pandas values *)

NaT == 0 - 1
NA == 0 - 1

\* pd.to_datetime of a date string
to_datetime(s) == IF s = <<>> THEN NaT ELSE s[1] * 10000 + s[2] * 100 + s[3]

\* Timestamp.to_period('M') as an ordinal: year*12 + (month-1)
to_period(ts) == (ts \div 10000) * 12 + ((ts \div 100) % 100) - 1

\* the first day of the month of period ordinal p
month_start(p) == (p \div 12) * 10000 + ((p % 12) + 1) * 100 + 1

\* a Timestamp as to_csv writes it
isoformat(ts) ==
    IF ts = NaT THEN <<>> ELSE <<ts \div 10000, (ts \div 100) % 100, ts % 100>>

\* comparisons of datetime values: false when either side is NaT
dt_lt(a, b) == a # NaT /\ b # NaT /\ a < b
dt_le(a, b) == a # NaT /\ b # NaT /\ a <= b

\* Series.min() / Series.max() of datetimes: NaT is skipped, NaT when empty
dt_min(S) ==
    LET T == S \ {NaT}
    IN  IF T = {} THEN NaT ELSE CHOOSE x \in T : \A y \in T : x <= y
dt_max(S) ==
    LET T == S \ {NaT}
    IN  IF T = {} THEN NaT ELSE CHOOSE x \in T : \A y \in T : y <= x

\* sort key of a datetime: NaT sorts last (na_position='last')
dates_key(ts) == IF ts = NaT THEN 99999999 ELSE ts

\* DataFrame.sort_values: the rows of s in ascending order of the integer keys
\* k (k[i] is the key of s[i]); rows with equal keys keep their order
sort_values(s, k) ==
    LET n == Len(s)
        rank(i) == Cardinality({j \in 1..n : k[j] < k[i] \/ (k[j] = k[i] /\ j < i)}) + 1
    IN  [p \in 1..n |-> s[CHOOSE i \in 1..n : rank(i) = p]]

sort_by_dates(s) == sort_values(s, [i \in 1..Len(s) |-> dates_key(s[i].dates)])
sort_by_sub_id_dates(s) ==
    sort_values(s, [i \in 1..Len(s) |->
                      s[i].sub_id * 100000000 + dates_key(s[i].dates)])

RECURSIVE concat(_)
concat(ss) == IF ss = <<>> THEN <<>> ELSE ss[1] \o concat(Tail(ss))

\* the elements of a finite set of integers in ascending order
RECURSIVE sorted_seq(_)
sorted_seq(S) ==
    IF S = {} THEN <<>>
    ELSE LET x == CHOOSE x \in S : \A y \in S : x <= y
         IN  <<x>> \o sorted_seq(S \ {x})

-----------------------------------------------------------------------------
(* Pipe.deduplicate_subscriptions *)

\* the frame as read_csv returns it, after `dates` became datetimes (l.31-32)
parse_dates(df) ==
    [i \in 1..Len(df) |->
        [sub_id |-> df[i].sub_id, status |-> df[i].status,
         dates |-> to_datetime(df[i].dates)]]

\* A faulty variant of duplicated: keep='first', which leaves the first row of
\* a group unmarked
duplicated_keep_first(df, i) ==
    \E j \in 1..(i - 1) :
        df[j].dates = df[i].dates /\ df[j].sub_id = df[i].sub_id

\* DataFrame.duplicated(subset=['dates', 'sub_id'], keep=False) for row i:
\* another row holds the same (dates, sub_id)
duplicated(df, i) ==
    \E j \in 1..Len(df) :
        j # i /\ df[j].dates = df[i].dates /\ df[j].sub_id = df[i].sub_id

\* DataFrame.drop_duplicates(subset=['sub_id', 'dates']): the first row of
\* every (sub_id, dates) group is kept, in the frame's order
RECURSIVE drop_duplicates(_)
drop_duplicates(df) ==
    IF df = <<>> THEN <<>>
    ELSE LET n == Len(df)
             init == SubSeq(df, 1, n - 1)
         IN  IF \E j \in 1..(n - 1) :
                    df[j].sub_id = df[n].sub_id /\ df[j].dates = df[n].dates
             THEN drop_duplicates(init)
             ELSE Append(drop_duplicates(init), df[n])

deduplicate_subscriptions(df) ==
    LET parsed == parse_dates(df)
        marked == [i \in 1..Len(parsed) |->
                     [sub_id |-> parsed[i].sub_id, status |-> parsed[i].status,
                      dates |-> parsed[i].dates,
                      invalid_status |-> duplicated(parsed, i)]]
    IN  drop_duplicates(marked)

-----------------------------------------------------------------------------
(* Pipe.fill_missing_months *)

sub_ids_of(df) == {df[i].sub_id : i \in 1..Len(df)}
dates_of(df, sub) == {df[i].dates : i \in {j \in 1..Len(df) : df[j].sub_id = sub}}

\* pd.date_range(lo, hi, freq='MS'): the month starts t with lo <= t <= hi
date_range(lo, hi) ==
    LET first == IF lo % 100 = 1 THEN to_period(lo) ELSE to_period(lo) + 1
        last == to_period(hi)
    IN  [k \in 1..(last - first + 1) |-> month_start(first + k - 1)]

\* date_range raises ValueError when start or end is NaT
date_range_raises(df) ==
    \E sub \in sub_ids_of(df) :
        dt_min(dates_of(df, sub)) = NaT \/ dt_max(dates_of(df, sub)) = NaT

\* the MultiIndex of l.61-65: per sub_id in ascending order (groupby sorts its
\* keys) the month starts from its min to its max date; explode() turns an
\* empty range into one missing value
month_index(df) ==
    LET subs == sorted_seq(sub_ids_of(df))
        months(sub) == date_range(dt_min(dates_of(df, sub)), dt_max(dates_of(df, sub)))
        exploded(sub) == IF months(sub) = <<>> THEN <<NaT>> ELSE months(sub)
    IN  concat([g \in 1..Len(subs) |->
                  [k \in 1..Len(exploded(subs[g])) |->
                      [dates |-> exploded(subs[g])[k], sub_id |-> subs[g]]]])

\* set_index(['dates','sub_id']).reindex(midx, fill_value=True).reset_index():
\* one row per entry of midx, the frame's row with that key when it has one
\* and a row of fill values otherwise; frame rows whose key is not in midx go
reindex(df, midx) ==
    [k \in 1..Len(midx) |->
        LET hit == {i \in 1..Len(df) :
                       df[i].dates = midx[k].dates /\ df[i].sub_id = midx[k].sub_id}
        IN  IF hit = {}
            THEN [sub_id |-> midx[k].sub_id, status |-> "True",
                  dates |-> midx[k].dates, invalid_status |-> TRUE]
            ELSE df[CHOOSE i \in hit : TRUE]]

fill_missing_months(df) == reindex(df, month_index(df))

\* l.74-75: the frame sorted by (sub_id, dates) as 'test1.csv' holds it; the
\* frame itself keeps its order
test1_rows(df) ==
    LET sorted == sort_by_sub_id_dates(df)
    IN  [i \in 1..Len(sorted) |->
            [dates |-> isoformat(sorted[i].dates), sub_id |-> sorted[i].sub_id,
             status |-> sorted[i].status, invalid_status |-> sorted[i].invalid_status]]

-----------------------------------------------------------------------------
(* Pipe.updated_statuses *)

\* A faulty variant of get_last_valid_status: the two selections leave out
\* the test invalid_status == False, so flagged rows serve as sources
get_last_valid_status_any_row(df, row) ==
    IF row.invalid_status
    THEN LET prev_valid_status ==
                 sort_by_dates(SelectSeq(df,
                     LAMBDA r : r.sub_id = row.sub_id /\ dt_lt(r.dates, row.dates)))
             next_valid_status ==
                 sort_by_dates(SelectSeq(df,
                     LAMBDA r : r.sub_id = row.sub_id /\ dt_lt(row.dates, r.dates)))
         IN  IF Len(prev_valid_status) = 0 /\ Len(next_valid_status) = 0
             THEN "canceled"
             ELSE IF Len(prev_valid_status) > 0
             THEN prev_valid_status[Len(prev_valid_status)].status
             ELSE next_valid_status[1].status
    ELSE row.status

get_last_valid_status(df, row) ==
    IF row.invalid_status
    THEN LET prev_valid_status ==
                 sort_by_dates(SelectSeq(df,
                     LAMBDA r : r.sub_id = row.sub_id /\ dt_lt(r.dates, row.dates)
                                /\ r.invalid_status = FALSE))
             next_valid_status ==
                 sort_by_dates(SelectSeq(df,
                     LAMBDA r : r.sub_id = row.sub_id /\ dt_lt(row.dates, r.dates)
                                /\ r.invalid_status = FALSE))
         IN  IF Len(prev_valid_status) = 0 /\ Len(next_valid_status) = 0
             THEN "canceled"
             ELSE IF Len(prev_valid_status) > 0
             THEN prev_valid_status[Len(prev_valid_status)].status
             ELSE next_valid_status[1].status
    ELSE row.status

\* DataFrame.apply computes every row's value from the frame as it is, and
\* only then is the status column assigned
updated_statuses(df) ==
    [i \in 1..Len(df) |-> [df[i] EXCEPT !.status = get_last_valid_status(df, df[i])]]

-----------------------------------------------------------------------------
(* Pipe.calculate_months_since_first_subscription *)

\* A faulty variant of get_months_since_first_subscription: dates < month
get_months_since_first_subscription_strict(df, row) ==
    LET first_sub_month ==
            dt_min({df[i].dates : i \in {j \in 1..Len(df) :
                        df[j].sub_id = row.sub_id /\ df[j].status = "active"
                        /\ dt_lt(df[j].dates, row.dates)}})
    IN  IF first_sub_month = NaT THEN NA
        ELSE to_period(row.dates) - to_period(first_sub_month)

get_months_since_first_subscription(df, row) ==
    LET first_sub_month ==
            dt_min({df[i].dates : i \in {j \in 1..Len(df) :
                        df[j].sub_id = row.sub_id /\ df[j].status = "active"
                        /\ dt_le(df[j].dates, row.dates)}})
    IN  IF first_sub_month = NaT THEN NA
        ELSE to_period(row.dates) - to_period(first_sub_month)

calculate_months_since_first_subscription(df) ==
    [i \in 1..Len(df) |->
        [sub_id |-> df[i].sub_id, status |-> df[i].status, dates |-> df[i].dates,
         invalid_status |-> df[i].invalid_status,
         months_since_first_subscription |->
             get_months_since_first_subscription(df, df[i])]]

-----------------------------------------------------------------------------
(* Pipe.get_num_active_and_canceled_months *)

\* A faulty variant of get_status_counts: dates < month
get_status_counts_strict(df, row, status) ==
    Cardinality({j \in 1..Len(df) :
                    df[j].sub_id = row.sub_id /\ dt_lt(df[j].dates, row.dates)
                    /\ df[j].status = status})

\* value_counts().get(status, 0) over the subscriber's rows up to row's month
get_status_counts(df, row, status) ==
    Cardinality({j \in 1..Len(df) :
                    df[j].sub_id = row.sub_id /\ dt_le(df[j].dates, row.dates)
                    /\ df[j].status = status})

get_num_active_and_canceled_months(df) ==
    [i \in 1..Len(df) |->
        [sub_id |-> df[i].sub_id, status |-> df[i].status, dates |-> df[i].dates,
         invalid_status |-> df[i].invalid_status,
         months_since_first_subscription |-> df[i].months_since_first_subscription,
         active_months |-> get_status_counts(df, df[i], "active"),
         canceled_months |-> get_status_counts(df, df[i], "canceled")]]

-----------------------------------------------------------------------------
(* Pipe.calculate_months_since_status_change *)

\* A faulty variant of get_months_since_status_change: min() for max()
get_months_since_status_change_first(df, row) ==
    LET last_status_change_date ==
            dt_min({df[i].dates : i \in {j \in 1..Len(df) :
                        df[j].sub_id = row.sub_id /\ dt_lt(df[j].dates, row.dates)
                        /\ df[j].status # row.status}})
    IN  IF last_status_change_date = NaT THEN NA
        ELSE to_period(row.dates) - to_period(last_status_change_date)

get_months_since_status_change(df, row) ==
    LET last_status_change_date ==
            dt_max({df[i].dates : i \in {j \in 1..Len(df) :
                        df[j].sub_id = row.sub_id /\ dt_lt(df[j].dates, row.dates)
                        /\ df[j].status # row.status}})
    IN  IF last_status_change_date = NaT THEN NA
        ELSE to_period(row.dates) - to_period(last_status_change_date)

calculate_months_since_status_change(df) ==
    [i \in 1..Len(df) |->
        [sub_id |-> df[i].sub_id, status |-> df[i].status, dates |-> df[i].dates,
         invalid_status |-> df[i].invalid_status,
         months_since_first_subscription |-> df[i].months_since_first_subscription,
         active_months |-> df[i].active_months,
         canceled_months |-> df[i].canceled_months,
         months_since_status_change |->
             get_months_since_status_change(df, df[i])]]

-----------------------------------------------------------------------------
(* Pipe.get_monthly_bookings *)

\* the date part of the timestamp string with its day replaced by '01'
timestamp_to_month(booking_date) == <<booking_date[1], booking_date[2], 1>>

\* bookings_df with its new `month` column (l.267-268)
with_month(bdf) ==
    [i \in 1..Len(bdf) |->
        [subscriber_id |-> bdf[i].subscriber_id, booking_date |-> bdf[i].booking_date,
         booking_status |-> bdf[i].booking_status,
         month |-> timestamp_to_month(bdf[i].booking_date)]]

\* the groups of groupby(['month', 'subscriber_id']) in ascending key order
\* (month strings 'YYYY-MM-01' order as their dates do)
RECURSIVE group_keys(_)
group_keys(K) ==
    IF K = {} THEN <<>>
    ELSE LET ord(k) == to_datetime(k.month) * 100 + k.subscriber_id
             x == CHOOSE x \in K : \A y \in K : ord(x) <= ord(y)
         IN  <<x>> \o group_keys(K \ {x})

\* A faulty variant of monthly_bookings: every booking is counted, whatever
\* its booking_status
monthly_bookings_unfiltered(bdf) ==
    LET keys == group_keys({[month |-> bdf[i].month,
                             subscriber_id |-> bdf[i].subscriber_id] :
                            i \in 1..Len(bdf)})
    IN  [g \in 1..Len(keys) |->
            [dates |-> to_datetime(keys[g].month),
             sub_id |-> keys[g].subscriber_id,
             confirmed_bookings |->
                 Cardinality({i \in 1..Len(bdf) :
                     bdf[i].month = keys[g].month
                     /\ bdf[i].subscriber_id = keys[g].subscriber_id})]]

\* l.270-286: Confirmed rows, counted per (month, subscriber_id), the month
\* parsed to a datetime, the columns renamed
monthly_bookings(bdf) ==
    LET confirmed == SelectSeq(bdf, LAMBDA r : r.booking_status = "Confirmed")
        keys == group_keys({[month |-> confirmed[i].month,
                             subscriber_id |-> confirmed[i].subscriber_id] :
                            i \in 1..Len(confirmed)})
    IN  [g \in 1..Len(keys) |->
            [dates |-> to_datetime(keys[g].month),
             sub_id |-> keys[g].subscriber_id,
             confirmed_bookings |->
                 Cardinality({i \in 1..Len(confirmed) :
                     confirmed[i].month = keys[g].month
                     /\ confirmed[i].subscriber_id = keys[g].subscriber_id})]]

-----------------------------------------------------------------------------
(* Pipe.save_to_csv *)

joined_row(l, n) ==
    [sub_id |-> l.sub_id, status |-> l.status, dates |-> l.dates,
     invalid_status |-> l.invalid_status,
     months_since_first_subscription |-> l.months_since_first_subscription,
     active_months |-> l.active_months, canceled_months |-> l.canceled_months,
     months_since_status_change |-> l.months_since_status_change,
     confirmed_bookings |-> n]

\* DataFrame.merge(right, on=['sub_id', 'dates'], how='left'): every left row
\* once per matching right row, or once with a missing value when none matches
merge_left(left, right) ==
    concat([i \in 1..Len(left) |->
        LET m == SelectSeq(right,
                     LAMBDA r : r.sub_id = left[i].sub_id /\ r.dates = left[i].dates)
        IN  IF m = <<>> THEN <<joined_row(left[i], NA)>>
            ELSE [k \in 1..Len(m) |-> joined_row(left[i], m[k].confirmed_bookings)]])

\* fillna(0).astype(int) on confirmed_bookings
fillna(df) ==
    [i \in 1..Len(df) |->
        [df[i] EXCEPT !.confirmed_bookings = IF @ = NA THEN 0 ELSE @]]

\* drop(columns='invalid_status')
drop_invalid_status(df) ==
    [i \in 1..Len(df) |->
        [sub_id |-> df[i].sub_id, status |-> df[i].status, dates |-> df[i].dates,
         months_since_first_subscription |-> df[i].months_since_first_subscription,
         active_months |-> df[i].active_months,
         canceled_months |-> df[i].canceled_months,
         months_since_status_change |-> df[i].months_since_status_change,
         confirmed_bookings |-> df[i].confirmed_bookings]]

\* l.294-303: self.output_df
merged_output(df, per_month) == drop_invalid_status(fillna(merge_left(df, per_month)))

\* l.305-306: the rows of output_df sorted by (sub_id, dates), as to_csv
\* writes them
save_to_csv(out) ==
    LET sorted == sort_by_sub_id_dates(out)
    IN  [i \in 1..Len(sorted) |-> [sorted[i] EXCEPT !.dates = isoformat(@)]]

-----------------------------------------------------------------------------
(* main as a function of its two files: what the run writes, or that it     *)
(* raises (date_range on a missing date, the only raise in reach here)      *)

main(subs_csv, bks_csv) ==
    LET deduplicated == deduplicate_subscriptions(subs_csv)
    IN  IF date_range_raises(deduplicated)
        THEN [raised |-> TRUE, csv |-> <<>>]
        ELSE [raised |-> FALSE,
              csv |-> save_to_csv(merged_output(
                  calculate_months_since_status_change(
                      get_num_active_and_canceled_months(
                          calculate_months_since_first_subscription(
                              updated_statuses(
                                  fill_missing_months(deduplicated))))),
                  monthly_bookings(with_month(bks_csv))))]

-----------------------------------------------------------------------------
(* main: the eight calls in order; pc names the call that runs next *)

Init ==
    /\ pc = "deduplicate_subscriptions"
    /\ \E b \in 0..(MaxRows - 1) :
          /\ bookings_csv \in [1..b -> BookingRows]
          /\ \E k \in 0..(MaxRows - b - 1) :
                subscriptions_csv \in [1..(MaxRows - b - k) -> SubscriptionRows]
    /\ subscriptions_df = subscriptions_csv
    /\ bookings_df = bookings_csv
    /\ bookings_per_month = <<>>
    /\ output_df = <<>>
    /\ test1_csv = <<>>
    /\ results_csv = <<>>

DeduplicateSubscriptions ==
    /\ pc = "deduplicate_subscriptions"
    /\ subscriptions_df' = deduplicate_subscriptions(subscriptions_df)
    /\ pc' = "fill_missing_months"
    /\ UNCHANGED <<subscriptions_csv, bookings_csv, bookings_df,
                   bookings_per_month, output_df, test1_csv, results_csv>>

FillMissingMonths ==
    /\ pc = "fill_missing_months"
    /\ IF date_range_raises(subscriptions_df)
       THEN pc' = "ValueError" /\ UNCHANGED <<subscriptions_df, test1_csv>>
       ELSE /\ subscriptions_df' = fill_missing_months(subscriptions_df)
            /\ test1_csv' = test1_rows(fill_missing_months(subscriptions_df))
            /\ pc' = "updated_statuses"
    /\ UNCHANGED <<subscriptions_csv, bookings_csv, bookings_df,
                   bookings_per_month, output_df, results_csv>>

UpdatedStatuses ==
    /\ pc = "updated_statuses"
    /\ subscriptions_df' = updated_statuses(subscriptions_df)
    /\ pc' = "calculate_months_since_first_subscription"
    /\ UNCHANGED <<subscriptions_csv, bookings_csv, bookings_df,
                   bookings_per_month, output_df, test1_csv, results_csv>>

\* When no subscriber's range holds a month start, the dates column holds no
\* datetime at all; whether min() of an empty selection of it is then pd.NaT
\* (the test of l.161) or a float nan, on which l.165 raises, depends on how
\* pandas typed the column.  Both outcomes are kept.
no_datetime(df) == \A i \in 1..Len(df) : df[i].dates = NaT

CalculateMonthsSinceFirstSubscriptionRaises ==
    /\ pc = "calculate_months_since_first_subscription"
    /\ no_datetime(subscriptions_df)
    /\ pc' = "AttributeError"
    /\ UNCHANGED <<subscriptions_csv, bookings_csv, subscriptions_df, bookings_df,
                   bookings_per_month, output_df, test1_csv, results_csv>>

CalculateMonthsSinceFirstSubscription ==
    /\ pc = "calculate_months_since_first_subscription"
    /\ subscriptions_df' = calculate_months_since_first_subscription(subscriptions_df)
    /\ pc' = "get_num_active_and_canceled_months"
    /\ UNCHANGED <<subscriptions_csv, bookings_csv, bookings_df,
                   bookings_per_month, output_df, test1_csv, results_csv>>

GetNumActiveAndCanceledMonths ==
    /\ pc = "get_num_active_and_canceled_months"
    /\ subscriptions_df' = get_num_active_and_canceled_months(subscriptions_df)
    /\ pc' = "calculate_months_since_status_change"
    /\ UNCHANGED <<subscriptions_csv, bookings_csv, bookings_df,
                   bookings_per_month, output_df, test1_csv, results_csv>>

CalculateMonthsSinceStatusChange ==
    /\ pc = "calculate_months_since_status_change"
    /\ subscriptions_df' = calculate_months_since_status_change(subscriptions_df)
    /\ pc' = "get_monthly_bookings"
    /\ UNCHANGED <<subscriptions_csv, bookings_csv, bookings_df,
                   bookings_per_month, output_df, test1_csv, results_csv>>

GetMonthlyBookings ==
    /\ pc = "get_monthly_bookings"
    /\ bookings_df' = with_month(bookings_df)
    /\ bookings_per_month' = monthly_bookings(with_month(bookings_df))
    /\ pc' = "save_to_csv"
    /\ UNCHANGED <<subscriptions_csv, bookings_csv, subscriptions_df, output_df,
                   test1_csv, results_csv>>

SaveToCsv ==
    /\ pc = "save_to_csv"
    /\ output_df' = merged_output(subscriptions_df, bookings_per_month)
    /\ results_csv' = save_to_csv(merged_output(subscriptions_df, bookings_per_month))
    /\ pc' = "done"
    /\ UNCHANGED <<subscriptions_csv, bookings_csv, subscriptions_df, bookings_df,
                   bookings_per_month, test1_csv>>

Next ==
    \/ DeduplicateSubscriptions
    \/ FillMissingMonths
    \/ UpdatedStatuses
    \/ CalculateMonthsSinceFirstSubscription
    \/ CalculateMonthsSinceFirstSubscriptionRaises
    \/ GetNumActiveAndCanceledMonths
    \/ CalculateMonthsSinceStatusChange
    \/ GetMonthlyBookings
    \/ SaveToCsv

Spec == Init /\ [][Next]_vars

\* the runs on up to MaxRows subscription rows of OrderRows and no booking
InitOrder ==
    /\ pc = "deduplicate_subscriptions"
    /\ \E k \in 0..(MaxRows - 1) :
          subscriptions_csv \in [1..(MaxRows - k) -> OrderRows]
    /\ bookings_csv = <<>>
    /\ subscriptions_df = subscriptions_csv
    /\ bookings_df = bookings_csv
    /\ bookings_per_month = <<>>
    /\ output_df = <<>>
    /\ test1_csv = <<>>
    /\ results_csv = <<>>

SpecOrder == InitOrder /\ [][Next]_vars

-----------------------------------------------------------------------------
(* Vocabulary of the properties. A month is year*12 + month; a date string  *)
(* is <<y, m, d>>, a datetime value the integer the frames hold.            *)

MonthOfString(d) == d[1] * 12 + d[2]
MonthOfValue(ts) == (ts \div 10000) * 12 + ((ts \div 100) % 100)

\* rows of the written file that belong to subscriber s
OutRows(s) == {i \in 1..Len(results_csv) : results_csv[i].sub_id = s}
\* row j of the written file is dated, and its month is before / not after
\* the month of the dated row i
Dated(i) == results_csv[i].dates # <<>>
OutBefore(j, i) ==
    /\ Dated(i) /\ Dated(j)
    /\ MonthOfString(results_csv[j].dates) < MonthOfString(results_csv[i].dates)
OutUpTo(j, i) ==
    /\ Dated(i) /\ Dated(j)
    /\ MonthOfString(results_csv[j].dates) <= MonthOfString(results_csv[i].dates)

RawSubs == {subscriptions_csv[i].sub_id : i \in 1..Len(subscriptions_csv)}
RawMonths(s) ==
    {MonthOfString(subscriptions_csv[i].dates) :
        i \in {j \in 1..Len(subscriptions_csv) : subscriptions_csv[j].sub_id = s}}
MinOf(S) == CHOOSE x \in S : \A y \in S : x <= y
MaxOf(S) == CHOOSE x \in S : \A y \in S : y <= x

\* C1: in the written file every subscriber's rows cover exactly the months
\* from its first to its last observed month, each month once, nothing else.
C1_Completeness ==
    pc = "done" =>
        /\ \A i \in 1..Len(results_csv) : results_csv[i].sub_id \in RawSubs
        /\ \A s \in RawSubs :
              /\ \A i \in OutRows(s) :
                    /\ Dated(i)
                    /\ MonthOfString(results_csv[i].dates) \in
                           MinOf(RawMonths(s))..MaxOf(RawMonths(s))
              /\ \A m \in MinOf(RawMonths(s))..MaxOf(RawMonths(s)) :
                    Cardinality({i \in OutRows(s) :
                        Dated(i) /\ MonthOfString(results_csv[i].dates) = m}) = 1

-----------------------------------------------------------------------------
(* Status Resolver *)

HasDate(r) == r.dates # NaT
\* the unflagged rows of row i's subscriber in frame df before / after row i
ValidBefore(df, i) ==
    {j \in 1..Len(df) : /\ df[j].sub_id = df[i].sub_id /\ ~df[j].invalid_status
                        /\ HasDate(df[i]) /\ HasDate(df[j])
                        /\ df[j].dates < df[i].dates}
ValidAfter(df, i) ==
    {j \in 1..Len(df) : /\ df[j].sub_id = df[i].sub_id /\ ~df[j].invalid_status
                        /\ HasDate(df[i]) /\ HasDate(df[j])
                        /\ df[j].dates > df[i].dates}
Latest(df, S) == CHOOSE j \in S : \A k \in S : df[k].dates <= df[j].dates
Earliest(df, S) == CHOOSE j \in S : \A k \in S : df[j].dates <= df[k].dates

ResolvedStatus(df, i) ==
    IF ~df[i].invalid_status THEN df[i].status
    ELSE IF ValidBefore(df, i) # {} THEN df[Latest(df, ValidBefore(df, i))].status
    ELSE IF ValidAfter(df, i) # {} THEN df[Earliest(df, ValidAfter(df, i))].status
    ELSE "canceled"

C2_WitnessNext ==
    /\ pc = "calculate_months_since_first_subscription"
    /\ \E i \in 1..Len(subscriptions_df) :
          /\ subscriptions_df[i].invalid_status
          /\ ValidBefore(subscriptions_df, i) = {}
          /\ ValidAfter(subscriptions_df, i) # {}
          /\ subscriptions_df[i].status = "active"

-----------------------------------------------------------------------------
(* Deduplicator *)

\* the raw rows of the (subscriber, calendar month) of the datetime ts
RawGroup(s, ts) ==
    {i \in 1..Len(subscriptions_csv) :
        /\ subscriptions_csv[i].sub_id = s
        /\ MonthOfString(subscriptions_csv[i].dates) = MonthOfValue(ts)}

\* C3: after deduplicate_subscriptions there is one row per (subscriber,
\* calendar month), it is the first raw row of that subscriber and month, and
\* it is flagged exactly when the raw input held two or more such rows.
C3_Deduplicator ==
    pc = "fill_missing_months" =>
        /\ \A i, j \in 1..Len(subscriptions_df) :
              (/\ subscriptions_df[i].sub_id = subscriptions_df[j].sub_id
               /\ MonthOfValue(subscriptions_df[i].dates) =
                      MonthOfValue(subscriptions_df[j].dates)) => i = j
        /\ \A s \in RawSubs : \A m \in RawMonths(s) :
              \E i \in 1..Len(subscriptions_df) :
                  /\ subscriptions_df[i].sub_id = s
                  /\ MonthOfValue(subscriptions_df[i].dates) = m
        /\ \A i \in 1..Len(subscriptions_df) :
              LET g == RawGroup(subscriptions_df[i].sub_id, subscriptions_df[i].dates)
              IN  /\ g # {}
                  /\ subscriptions_df[i].status = subscriptions_csv[MinOf(g)].status
                  /\ subscriptions_df[i].invalid_status <=> Cardinality(g) >= 2

-----------------------------------------------------------------------------
(* End-to-end example *)

ExampleA ==
    <<[sub_id |-> 1, status |-> "active", dates |-> <<2021, 1, 1>>],
      [sub_id |-> 1, status |-> "canceled", dates |-> <<2021, 3, 1>>],
      [sub_id |-> 1, status |-> "canceled", dates |-> <<2021, 1, 1>>]>>

ExampleMonths ==
    [i \in 1..Len(results_csv) |-> results_csv[i].dates] =
        <<<<2021, 1, 1>>, <<2021, 2, 1>>, <<2021, 3, 1>>>>

\* C4 as stated: the example's rows are 2021-01..03 with statuses active,
\* active, canceled, tenure 0,1,2, active months 1,1,1, canceled months
\* 0,0,1 and months since status change null, null, 2.
C4_ExampleAsStated ==
    (pc = "done" /\ subscriptions_csv = ExampleA) =>
        /\ ExampleMonths
        /\ [i \in 1..Len(results_csv) |-> results_csv[i].status] =
               <<"active", "active", "canceled">>
        /\ [i \in 1..Len(results_csv) |-> results_csv[i].months_since_first_subscription] =
               <<0, 1, 2>>
        /\ [i \in 1..Len(results_csv) |-> results_csv[i].active_months] = <<1, 1, 1>>
        /\ [i \in 1..Len(results_csv) |-> results_csv[i].canceled_months] = <<0, 0, 1>>
        /\ [i \in 1..Len(results_csv) |-> results_csv[i].months_since_status_change] =
               <<NA, NA, 2>>

\* C4 amended: the example's rows are 2021-01..03, all three canceled (the
\* duplicated month is flagged and the only unflagged row is 2021-03), tenure
\* null in each, active months 0,0,0, canceled months 1,2,3, months since
\* status change null in each.
C4_Example ==
    (pc = "done" /\ subscriptions_csv = ExampleA) =>
        /\ ExampleMonths
        /\ [i \in 1..Len(results_csv) |-> results_csv[i].sub_id] = <<1, 1, 1>>
        /\ [i \in 1..Len(results_csv) |-> results_csv[i].status] =
               <<"canceled", "canceled", "canceled">>
        /\ [i \in 1..Len(results_csv) |-> results_csv[i].months_since_first_subscription] =
               <<NA, NA, NA>>
        /\ [i \in 1..Len(results_csv) |-> results_csv[i].active_months] = <<0, 0, 0>>
        /\ [i \in 1..Len(results_csv) |-> results_csv[i].canceled_months] = <<1, 2, 3>>
        /\ [i \in 1..Len(results_csv) |-> results_csv[i].months_since_status_change] =
               <<NA, NA, NA>>

\* C4 witness: the run on the example has ended and wrote three rows
C4_Witness ==
    pc = "done" /\ subscriptions_csv = ExampleA /\ Len(results_csv) = 3

-----------------------------------------------------------------------------
(* Metrics of the written file *)

\* C5: in every written row, active_months + canceled_months is the number
\* of the subscriber's written rows up to and including the row's month.
C5_CountsCoverTimeline ==
    pc = "done" =>
        \A i \in 1..Len(results_csv) :
            results_csv[i].active_months + results_csv[i].canceled_months =
                Cardinality({j \in OutRows(results_csv[i].sub_id) : OutUpTo(j, i)})

\* the subscriber's rows with status active up to and including row i's month
ActiveUpTo(i) ==
    {j \in OutRows(results_csv[i].sub_id) :
        results_csv[j].status = "active" /\ OutUpTo(j, i)}

ChangedBefore(i) ==
    {j \in OutRows(results_csv[i].sub_id) :
        OutBefore(j, i) /\ results_csv[j].status # results_csv[i].status}

EventsOf(i) ==
    {b \in 1..Len(bookings_csv) :
        /\ bookings_csv[b].subscriber_id = results_csv[i].sub_id
        /\ Dated(i)
        /\ MonthOfString(bookings_csv[b].booking_date) = MonthOfString(results_csv[i].dates)}

\* C8: confirmed_bookings of a written row is the number of booking events of
\* its subscriber in its month whose status is exactly Confirmed; it is an
\* integer, 0 when there is none, never null.
C8_ConfirmedBookings ==
    pc = "done" =>
        \A i \in 1..Len(results_csv) :
            /\ results_csv[i].confirmed_bookings # NA
            /\ results_csv[i].confirmed_bookings =
                   Cardinality({b \in EventsOf(i) :
                       bookings_csv[b].booking_status = "Confirmed"})

\* C8 witness: a written row counts one confirmed booking while its
\* subscriber has a second event in that month with another status.
C8_Witness ==
    /\ pc = "done"
    /\ \E i \in 1..Len(results_csv) :
          /\ results_csv[i].confirmed_bookings = 1
          /\ Cardinality(EventsOf(i)) = 2

\* C8 reached as well: two confirmed bookings of one month are counted as 2
C8_WitnessTwo ==
    pc = "done" /\ \E i \in 1..Len(results_csv) : results_csv[i].confirmed_bookings = 2

-----------------------------------------------------------------------------
(* Relations between runs *)

\* the reorderings of a file's rows
Reorderings(f) ==
    {[i \in 1..Len(f) |-> f[p[i]]] :
        p \in {q \in [1..Len(f) -> 1..Len(f)] : \A a, b \in 1..Len(f) : q[a] = q[b] => a = b}}

\* C9: a run on the same subscription rows in any other order, with the same
\* bookings, writes the same file.
C9_OrderIndependent ==
    pc = "done" =>
        \A f \in Reorderings(subscriptions_csv) :
            LET other == main(f, bookings_csv)
            IN  ~other.raised /\ other.csv = results_csv

\* C9 witness: the run has ended on an input with two rows of one subscriber
\* and date, one active and one canceled.
C9_Witness ==
    /\ pc = "done"
    /\ \E i, j \in 1..Len(subscriptions_csv) :
          /\ subscriptions_csv[i].sub_id = subscriptions_csv[j].sub_id
          /\ subscriptions_csv[i].dates = subscriptions_csv[j].dates
          /\ subscriptions_csv[i].status = "active"
          /\ subscriptions_csv[j].status = "canceled"
    /\ results_csv # <<>>

\* the written rows as a subscriptions file: columns sub_id, status, dates
AsSubscriptions(csv) ==
    [i \in 1..Len(csv) |->
        [sub_id |-> csv[i].sub_id, status |-> csv[i].status, dates |-> csv[i].dates]]

\* C10: a second run, on the first run's written rows as the subscriptions
\* and the same bookings, writes the same file.
C10_Idempotent ==
    pc = "done" =>
        LET second == main(AsSubscriptions(results_csv), bookings_csv)
        IN  ~second.raised /\ second.csv = results_csv

====
